---- MODULE Spec2Model ----
(***************************************************************************)
(* Model of src/reporter/event/action.rs: the Action envelope, its six     *)
(* factories, the two derivation tables (name and status), the scope       *)
(* copy, the query surface and the derived serde serialization.            *)
(*                                                                         *)
(* Option<T> is modelled as a set with at most one element: None == {},    *)
(* Some(x) == {x}.  Payload values (release sources, toolchain specs,      *)
(* versions, error messages) are opaque to this file and are modelled as   *)
(* small integers.                                                         *)
(***************************************************************************)
EXTENDS Integers, Sequences, FiniteSets, TLC

(* ---------------------------- bounds ----------------------------------- *)

\* number of Action values the orchestrator/reporter hold at once
MaxHeld == 3
\* number of distinct values of every opaque payload type
NumPayloads == 2

ReleaseSource == 1..NumPayloads
OwnedToolchainSpec == 1..NumPayloads
Version == 1..NumPayloads
ErrorMessage == 1..NumPayloads

(* ---------------------------- Option ----------------------------------- *)

None == {}
Some(x) == {x}

(* ---------------------------- enums ------------------------------------ *)

\* pub enum ScopePosition { Start, End }
ScopePosition == {"Start", "End"}

\* pub enum ActionStatus { Fetching, Check, Setup, Running, Passed, Failed }
ActionStatus == {"Fetching", "Check", "Setup", "Running", "Passed", "Failed"}

\* ActionStatus::as_str
as_str(s) ==
    CASE s = "Fetching" -> "Fetching"
      [] s = "Check"    -> "Check"
      [] s = "Setup"    -> "Setup"
      [] s = "Running"  -> "Running"
      [] s = "Passed"   -> "[Pass]"
      [] s = "Failed"   -> "[Fail]"

\* The variants the enum ActionDetails declares (lines 85-102).  The
\* declaration lists five variants; FetchingIndex is not among them.
DeclaredVariants ==
    {"SetupToolchain", "CheckToolchain", "RunToolchainCheck",
     "RunToolchainCheckPass", "RunToolchainCheckFail"}

\* The values of the declared enum, tag plus per-variant fields.
ActionDetails ==
         {[tag |-> "SetupToolchain", fields |-> [toolchain |-> t]] : t \in OwnedToolchainSpec}
    \cup {[tag |-> "CheckToolchain", fields |-> [toolchain |-> t]] : t \in OwnedToolchainSpec}
    \cup {[tag |-> "RunToolchainCheck", fields |-> [version |-> v]] : v \in Version}
    \cup {[tag |-> "RunToolchainCheckPass", fields |-> [version |-> v]] : v \in Version}
    \cup {[tag |-> "RunToolchainCheckFail",
           fields |-> [version |-> v, error_message |-> e]] : v \in Version, e \in ErrorMessage}

(* ------------------------ derivation tables ---------------------------- *)

\* The variants the match in From<&ActionDetails> for ActionStatus has an arm for.
StatusArms ==
    {"FetchingIndex", "SetupToolchain", "CheckToolchain", "RunToolchainCheck",
     "RunToolchainCheckPass", "RunToolchainCheckFail"}

\* the status table with the CheckToolchain arm copied from SetupToolchain
ActionStatus_from_dup(action_details) ==
    CASE action_details.tag = "FetchingIndex"         -> "Fetching"
      [] action_details.tag = "SetupToolchain"        -> "Setup"
      [] action_details.tag = "CheckToolchain"        -> "Setup"
      [] action_details.tag = "RunToolchainCheck"     -> "Running"
      [] action_details.tag = "RunToolchainCheckPass" -> "Passed"
      [] action_details.tag = "RunToolchainCheckFail" -> "Failed"

\* impl From<&ActionDetails> for ActionStatus
ActionStatus_from(action_details) ==
    CASE action_details.tag = "FetchingIndex"         -> "Fetching"
      [] action_details.tag = "SetupToolchain"        -> "Setup"
      [] action_details.tag = "CheckToolchain"        -> "Check"
      [] action_details.tag = "RunToolchainCheck"     -> "Running"
      [] action_details.tag = "RunToolchainCheckPass" -> "Passed"
      [] action_details.tag = "RunToolchainCheckFail" -> "Failed"

\* The variants the match in From<&ActionDetails> for &'static str has an arm for.
NameArms ==
    {"FetchingIndex", "SetupToolchain", "CheckToolchain", "RunToolchainCheck",
     "RunToolchainCheckPass", "RunToolchainCheckFail"}

\* the name table with the RunToolchainCheck arm copied from CheckToolchain
str_from_dup(action_details) ==
    CASE action_details.tag = "FetchingIndex"         -> "fetching_index"
      [] action_details.tag = "SetupToolchain"        -> "setup_toolchain"
      [] action_details.tag = "CheckToolchain"        -> "check"
      [] action_details.tag = "RunToolchainCheck"     -> "check"
      [] action_details.tag = "RunToolchainCheckPass" -> "check_passed"
      [] action_details.tag = "RunToolchainCheckFail" -> "check_failed"

\* impl From<&ActionDetails> for &'static str
str_from(action_details) ==
    CASE action_details.tag = "FetchingIndex"         -> "fetching_index"
      [] action_details.tag = "SetupToolchain"        -> "setup_toolchain"
      [] action_details.tag = "CheckToolchain"        -> "check"
      [] action_details.tag = "RunToolchainCheck"     -> "run_check"
      [] action_details.tag = "RunToolchainCheckPass" -> "check_passed"
      [] action_details.tag = "RunToolchainCheckFail" -> "check_failed"

(* ------------------------------ Action --------------------------------- *)

\* new, but leaving an end scope on the fresh value
new_scoped(action) ==
    [name    |-> str_from(action),
     status  |-> ActionStatus_from(action),
     details |-> action,
     scope   |-> Some("End")]

\* new, but with a fixed status instead of the derived one
new_fixed_status(action) ==
    [name    |-> str_from(action),
     status  |-> "Running",
     details |-> action,
     scope   |-> None]

\* Action::new
new(action) ==
    [name    |-> str_from(action),
     status  |-> ActionStatus_from(action),
     details |-> action,
     scope   |-> None]

\* clone_with_scope_position, but keeping a scope that is already attached
clone_keeping_scope(self, position) ==
    LET cloned == IF self.scope = None THEN [self EXCEPT !.scope = Some(position)]
                  ELSE self
    IN  [self |-> self, ret |-> cloned]

\* clone_with_scope_position, but writing the scope into the receiver too
clone_in_place(self, position) ==
    LET cloned == [self EXCEPT !.scope = Some(position)]
    IN  [self |-> cloned, ret |-> cloned]

\* clone_with_scope_position, but returning the bare clone
clone_without_scope(self, position) ==
    LET cloned == self
    IN  [self |-> self, ret |-> cloned]

\* Action::clone_with_scope_position(&self, position): the receiver is
\* borrowed immutably; the clone gets the scope.  Both the receiver as
\* the call leaves it and the returned value are given.
clone_with_scope_position(self, position) ==
    LET cloned == [self EXCEPT !.scope = Some(position)]
    IN  [self |-> self, ret |-> cloned]

\* Action::status
status(self) == self.status

\* Action::details
details(self) == self.details

\* must_report, but reporting only start-scoped values
must_report_start_only(self) == self.scope = Some("Start")

\* Action::must_report
must_report(self) == self.scope = Some("Start") \/ self.scope = None

(* ----------------------------- factories ------------------------------- *)

\* Action::fetching_index
fetching_index(source) ==
    new([tag |-> "FetchingIndex", fields |-> [source |-> source]])

\* Action::setup_toolchain
setup_toolchain(toolchain) ==
    new([tag |-> "SetupToolchain", fields |-> [toolchain |-> toolchain]])

\* Action::check_toolchain
check_toolchain(toolchain) ==
    new([tag |-> "CheckToolchain", fields |-> [toolchain |-> toolchain]])

\* Action::run_toolchain_check
run_toolchain_check(version) ==
    new([tag |-> "RunToolchainCheck", fields |-> [version |-> version]])

\* Action::run_toolchain_check_pass
run_toolchain_check_pass(version) ==
    new([tag |-> "RunToolchainCheckPass", fields |-> [version |-> version]])

\* Action::run_toolchain_check_fail
run_toolchain_check_fail(version, error_msg) ==
    new([tag |-> "RunToolchainCheckFail",
         fields |-> [version |-> version, error_message |-> error_msg]])

\* The variants the six factories construct, one per factory.
FactoryVariants ==
    {fetching_index(1).details.tag, setup_toolchain(1).details.tag,
     check_toolchain(1).details.tag, run_toolchain_check(1).details.tag,
     run_toolchain_check_pass(1).details.tag,
     run_toolchain_check_fail(1, 1).details.tag}

(* --------------------------- serialization ----------------------------- *)

\* #[serde(rename_all = "snake_case")] on the variants of ActionDetails
snake_case_variant(tag) ==
    CASE tag = "SetupToolchain"        -> "setup_toolchain"
      [] tag = "CheckToolchain"        -> "check_toolchain"
      [] tag = "RunToolchainCheck"     -> "run_toolchain_check"
      [] tag = "RunToolchainCheckPass" -> "run_toolchain_check_pass"
      [] tag = "RunToolchainCheckFail" -> "run_toolchain_check_fail"

\* #[derive(serde::Serialize)] on ScopePosition with rename_all = "snake_case"
serialize_ScopePosition(p) ==
    CASE p = "Start" -> "start"
      [] p = "End"   -> "end"

\* #[derive(serde::Serialize)] on ActionDetails: one arm per declared
\* variant (externally tagged); a value of a variant the enum does not
\* declare has no serialized form.
serialize_ActionDetails(d) ==
    IF d.tag \in DeclaredVariants
    THEN Some([variant |-> snake_case_variant(d.tag), fields |-> d.fields])
    ELSE None

\* #[derive(serde::Serialize)] on Action: name, details, and scope unless
\* it is None; status is skipped.  The result is the map of the fields
\* written, or None when the details have no serialized form.
serialize_Action(a) ==
    LET d == serialize_ActionDetails(a.details)
        head == [name |-> a.name, details |-> CHOOSE x \in d : TRUE]
    IN  IF d = None THEN None
        ELSE IF a.scope = None THEN Some(head)
        ELSE Some(head @@ [scope |-> serialize_ScopePosition(CHOOSE p \in a.scope : TRUE)])

(* ------------------------------ state ---------------------------------- *)

VARIABLES
    held,   \* the Action values the orchestrator and the reporter hold
    call,   \* the last operation called: its name, receiver and argument
    ret     \* what the last operation returned

vars == <<held, call, ret>>

NoRet == [action |-> None, bool |-> None, status |-> None, details |-> None,
          wire |-> None]

Init ==
    /\ held = {}
    /\ call = [op |-> "none", self |-> None, position |-> None]
    /\ ret = NoRet

\* a factory call: the returned Action is kept
Construct(op, a) ==
    /\ Cardinality(held) < MaxHeld
    /\ held' = held \cup {a}
    /\ call' = [op |-> op, self |-> None, position |-> None]
    /\ ret' = [NoRet EXCEPT !.action = Some(a)]

FetchingIndex ==
    \E source \in ReleaseSource :
        Construct("fetching_index", fetching_index(source))

SetupToolchain ==
    \E toolchain \in OwnedToolchainSpec :
        Construct("setup_toolchain", setup_toolchain(toolchain))

CheckToolchain ==
    \E toolchain \in OwnedToolchainSpec :
        Construct("check_toolchain", check_toolchain(toolchain))

RunToolchainCheck ==
    \E version \in Version :
        Construct("run_toolchain_check", run_toolchain_check(version))

RunToolchainCheckPass ==
    \E version \in Version :
        Construct("run_toolchain_check_pass", run_toolchain_check_pass(version))

RunToolchainCheckFail ==
    \E version \in Version, error_msg \in ErrorMessage :
        Construct("run_toolchain_check_fail", run_toolchain_check_fail(version, error_msg))

\* a.clone_with_scope_position(position) on a held a: the copy is kept
\* next to the receiver
CloneWithScopePosition ==
    \E a \in held, position \in ScopePosition :
        LET r == clone_with_scope_position(a, position) IN
        /\ Cardinality(held) < MaxHeld
        /\ held' = ((held \ {a}) \cup {r.self}) \cup {r.ret}
        /\ call' = [op |-> "clone_with_scope_position", self |-> Some(a),
                    position |-> Some(position)]
        /\ ret' = [NoRet EXCEPT !.action = Some(r.ret)]

\* a.status() on a held a
Status ==
    \E a \in held :
        /\ call' = [op |-> "status", self |-> Some(a), position |-> None]
        /\ ret' = [NoRet EXCEPT !.status = Some(status(a))]
        /\ UNCHANGED held

\* a.details() on a held a
Details ==
    \E a \in held :
        /\ call' = [op |-> "details", self |-> Some(a), position |-> None]
        /\ ret' = [NoRet EXCEPT !.details = Some(details(a))]
        /\ UNCHANGED held

\* a.must_report() on a held a
MustReport ==
    \E a \in held :
        /\ call' = [op |-> "must_report", self |-> Some(a), position |-> None]
        /\ ret' = [NoRet EXCEPT !.bool = Some(must_report(a))]
        /\ UNCHANGED held

\* a held a is serialized
Serialize ==
    \E a \in held :
        /\ call' = [op |-> "serialize", self |-> Some(a), position |-> None]
        /\ ret' = [NoRet EXCEPT !.wire = serialize_Action(a)]
        /\ UNCHANGED held

Next ==
    \/ FetchingIndex
    \/ SetupToolchain
    \/ CheckToolchain
    \/ RunToolchainCheck
    \/ RunToolchainCheckPass
    \/ RunToolchainCheckFail
    \/ CloneWithScopePosition
    \/ Status
    \/ Details
    \/ MustReport
    \/ Serialize

Spec == Init /\ [][Next]_vars

(* ------------------------- derived notions ----------------------------- *)

\* the element of a Some(x)
TheOne(S) == CHOOSE x \in S : TRUE

FactoryOps ==
    {"fetching_index", "setup_toolchain", "check_toolchain", "run_toolchain_check",
     "run_toolchain_check_pass", "run_toolchain_check_fail"}

\* the name each variant is documented to have
NameTable ==
    [FetchingIndex         |-> "fetching_index",
     SetupToolchain        |-> "setup_toolchain",
     CheckToolchain        |-> "check",
     RunToolchainCheck     |-> "run_check",
     RunToolchainCheckPass |-> "check_passed",
     RunToolchainCheckFail |-> "check_failed"]

\* the status each variant is documented to have
StatusTable ==
    [FetchingIndex         |-> "Fetching",
     SetupToolchain        |-> "Setup",
     CheckToolchain        |-> "Check",
     RunToolchainCheck     |-> "Running",
     RunToolchainCheckPass |-> "Passed",
     RunToolchainCheckFail |-> "Failed"]

(* ------------------------------ claims --------------------------------- *)

\* C1: must_report() answers true exactly when the receiver's scope is
\* Some(Start) or None and false exactly when it is Some(End); every held
\* Action with the same scope gets the same answer whatever its name,
\* status and details are.
C1_MustReportByScope ==
    call.op = "must_report" =>
        /\ ret.bool # None
        /\ LET a == TheOne(call.self)
               b == TheOne(ret.bool)
           IN  /\ (b = TRUE)  <=> (a.scope = Some("Start") \/ a.scope = None)
               /\ (b = FALSE) <=> (a.scope = Some("End"))
               /\ \A o \in held : o.scope = a.scope => must_report(o) = b

C1_Witness ==
    /\ call.op = "must_report"
    /\ TheOne(call.self).scope = Some("End")
    /\ ret.bool = Some(FALSE)
    /\ \E o \in held : o.details # TheOne(call.self).details /\ o.scope = None

\* C2: the value returned by clone_with_scope_position(Start) must be
\* reported and the one returned by clone_with_scope_position(End) must
\* not, whatever scope the receiver had.
C2_LastPositionDecides ==
    call.op = "clone_with_scope_position" =>
        /\ ret.action # None
        /\ call.position = Some("Start") => must_report(TheOne(ret.action))
        /\ call.position = Some("End") => ~must_report(TheOne(ret.action))

C2_Witness ==
    /\ call.op = "clone_with_scope_position"
    /\ TheOne(call.self).scope = Some("End")
    /\ call.position = Some("Start")
    /\ must_report(TheOne(ret.action))
    /\ ~must_report(TheOne(call.self))

\* C3: no step changes an Action that is already held: every held value
\* is still held, with its name, status, details and scope, after every
\* later call, clone_with_scope_position on it included.
C3_ReceiverUntouched ==
    [][/\ held \subseteq held'
       /\ call'.op = "clone_with_scope_position" => TheOne(call'.self) \in held']_vars

C3_Witness ==
    /\ call.op = "clone_with_scope_position"
    /\ TheOne(call.self).scope = Some("Start")
    /\ TheOne(ret.action).scope = Some("End")
    /\ TheOne(call.self) \in held
    /\ must_report(TheOne(call.self))

\* C4: the value clone_with_scope_position(p) returns has scope Some(p)
\* and the receiver's name, status and details.
C4_CloneDiffersInScopeOnly ==
    [][call'.op = "clone_with_scope_position" =>
        /\ call'.self # None /\ ret'.action # None
        /\ LET a == TheOne(call'.self)
               r == TheOne(ret'.action)
           IN  /\ a \in held
               /\ r \in held'
               /\ r.scope = call'.position
               /\ r.name = a.name
               /\ r.status = a.status
               /\ r.details = a.details]_vars

C4_Witness ==
    /\ call.op = "clone_with_scope_position"
    /\ call.position = Some("End")
    /\ TheOne(call.self).scope = None
    /\ TheOne(ret.action).scope = Some("End")
    /\ TheOne(ret.action).details = TheOne(call.self).details
    /\ TheOne(ret.action).details.tag = "RunToolchainCheckFail"

\* C5: the name of every Action is the documented name of its details'
\* variant, whatever the payload, and two Actions of different variants
\* never have the same name; the table has an arm for all six variants.
C5_NameTable ==
    /\ \A a \in held :
          /\ a.details.tag \in NameArms
          /\ a.name = NameTable[a.details.tag]
          /\ str_from(a.details) = NameTable[a.details.tag]
    /\ \A a, b \in held : a.name = b.name => a.details.tag = b.details.tag
    /\ \A t, u \in NameArms :
          str_from([tag |-> t]) = str_from([tag |-> u]) => t = u

C5_Witness ==
    \E a, b, c \in held :
        /\ a.details.tag = "RunToolchainCheck"
        /\ b.details.tag = "RunToolchainCheck"
        /\ a.details # b.details
        /\ a.name = "run_check" /\ b.name = "run_check"
        /\ c.details.tag = "CheckToolchain"
        /\ c.name = "check"

\* C6: the status of every Action is the documented status of its
\* details' variant, whatever the payload, and every ActionStatus value is
\* the status of exactly one variant.
C6_StatusTable ==
    /\ \A a \in held :
          /\ a.details.tag \in StatusArms
          /\ a.status = StatusTable[a.details.tag]
          /\ ActionStatus_from(a.details) = StatusTable[a.details.tag]
    /\ \A a, b \in held : a.status = b.status => a.details.tag = b.details.tag
    /\ \A s \in ActionStatus :
          Cardinality({t \in StatusArms : ActionStatus_from([tag |-> t]) = s}) = 1

C6_Witness ==
    \E a, b, c \in held :
        /\ a.details.tag = "SetupToolchain"
        /\ b.details.tag = "SetupToolchain"
        /\ a.details # b.details
        /\ a.status = "Setup" /\ b.status = "Setup"
        /\ c.details.tag = "CheckToolchain"
        /\ c.status = "Check"

\* C7: the variants the ActionDetails type declares, the variants the
\* factories build and the variants each derivation table handles are the
\* same six: the variant of every Action a factory built belongs to all
\* of them, and its details are a value of the declared type.
C7_ClosedVariantSet ==
    \A a \in held :
        /\ a.details.tag \in FactoryVariants
        /\ a.details.tag \in StatusArms
        /\ a.details.tag \in NameArms
        /\ a.details.tag \in DeclaredVariants
        /\ a.details \in ActionDetails
        /\ Cardinality(DeclaredVariants) = 6
        /\ DeclaredVariants = FactoryVariants
        /\ DeclaredVariants = StatusArms
        /\ DeclaredVariants = NameArms

\* C8: every factory call returns an Action, whatever the payload, and the
\* Action has scope None and must be reported.
C8_FactoryUnscoped ==
    call.op \in FactoryOps =>
        /\ ret.action # None
        /\ TheOne(ret.action) \in held
        /\ TheOne(ret.action).scope = None
        /\ must_report(TheOne(ret.action))

C8_Witness ==
    /\ call.op = "run_toolchain_check_fail"
    /\ Cardinality(held) = MaxHeld
    /\ TheOne(ret.action).details.fields.error_message = NumPayloads
    /\ TheOne(ret.action).scope = None
    /\ \E o \in held : o.scope = Some("End")

C10_DerivedFieldsAgree ==
    [][/\ \A a \in held' :
             /\ a.name = NameTable[a.details.tag]
             /\ a.status = StatusTable[a.details.tag]
             /\ a.name = str_from(a.details)
             /\ a.status = ActionStatus_from(a.details)
       /\ \A a \in held : a.scope # None => a \in held'
       /\ call'.op = "clone_with_scope_position" =>
             /\ ret'.action \subseteq held'
             /\ \A r \in ret'.action : r.scope # None]_vars

C10_Witness ==
    /\ call.op = "clone_with_scope_position"
    /\ TheOne(call.self).scope = Some("End")
    /\ \E a, b, c \in held :
        /\ a.scope = None /\ a.details.tag = "FetchingIndex"
        /\ b.scope = Some("End") /\ b.details = a.details
        /\ c.scope = Some("Start") /\ c.details = a.details
        /\ c.name = "fetching_index" /\ c.status = "Fetching"
        /\ ret.action = Some(c)

====
